---- MODULE Spec2Model ----
(***************************************************************************)
(* Model of the `to toml` command of nu-command                            *)
(* (crates/nu-command/src/formats/to/toml.rs).                             *)
(*                                                                         *)
(* The command is a pure, single-pass recursive conversion of one          *)
(* nu_protocol::Value tree into a toml_edit::Value tree.  The state of the *)
(* model is one call: the input value, the call span, and what the two     *)
(* entry points (value_to_toml_value, to_toml) returned for it.  ctrlc is   *)
(* the interrupt flag of the engine state that run receives.               *)
(***************************************************************************)
EXTENDS Integers, Sequences, FiniteSets, TLC

VARIABLES value, head, pc, res, emitted, ret, visited, ctrlc

vars == <<value, head, pc, res, emitted, ret, visited, ctrlc>>

(***************************************************************************)
(* Bounds of the input universe.                                           *)
(***************************************************************************)
\* longest list / record built over the scalar values
MaxLen == 2
\* spans are 0 (Span::unknown()) .. MaxSpan
MaxSpan == 1

Min(a, b) == IF a < b THEN a ELSE b

(***************************************************************************)
(* Result<T, ShellError>, plus the third outcome a call can have: a panic  *)
(* (Result::unwrap on an Err).                                             *)
(***************************************************************************)
Ok(v) == [tag |-> "Ok", v |-> v]
Err(e) == [tag |-> "Err", e |-> e]
Panic(e) == [tag |-> "Panic", e |-> e]
NotCalled == [tag |-> "NotCalled"]

\* ShellError::UnsupportedInput(String, Span)
UnsupportedInput(msg, span) == [e |-> "UnsupportedInput", args |-> <<msg>>, span |-> span]
\* ShellError::CantConvert(String, String, Span)
CantConvert(to, from, span) == [e |-> "CantConvert", args |-> <<to, from>>, span |-> span]

\* Span::unknown()
Span_unknown == 0

(***************************************************************************)
(* nu_protocol::Value, one constructor per variant the converter matches.  *)
(* Value::Error carries no span.  The val field of a variant is named by   *)
(* its type where that is not i64 (val_bool, val_str, val_date, val_bytes).*)
(***************************************************************************)
Value_Bool(val, span) == [kind |-> "Bool", val_bool |-> val, span |-> span]
Value_Int(val, span) == [kind |-> "Int", val |-> val, span |-> span]
Value_Filesize(val, span) == [kind |-> "Filesize", val |-> val, span |-> span]
Value_Duration(val, span) == [kind |-> "Duration", val |-> val, span |-> span]
Value_Date(val, span) == [kind |-> "Date", val_date |-> val, span |-> span]
Value_Range(span) == [kind |-> "Range", span |-> span]
Value_Float(val, span) == [kind |-> "Float", val |-> val, span |-> span]
Value_String(val, span) == [kind |-> "String", val_str |-> val, span |-> span]
Value_Record(cols, vals, span) == [kind |-> "Record", cols |-> cols, vals |-> vals, span |-> span]
Value_List(vals, span) == [kind |-> "List", vals |-> vals, span |-> span]
Value_Block(span) == [kind |-> "Block", span |-> span]
Value_Nothing(span) == [kind |-> "Nothing", span |-> span]
Value_Error(error) == [kind |-> "Error", error |-> error]
Value_Binary(val, span) == [kind |-> "Binary", val_bytes |-> val, span |-> span]
Value_CellPath(members, span) == [kind |-> "CellPath", members |-> members, span |-> span]
Value_CustomValue(span) == [kind |-> "CustomValue", span |-> span]

PathMember_String(val) == [pm |-> "String", key |-> val]
PathMember_Int(val) == [pm |-> "Int", idx |-> val]

(***************************************************************************)
(* toml_edit::Value.  toml_edit::Value has no constructor that helper      *)
(* uses for a root table: records become InlineTable.                      *)
(***************************************************************************)
Toml_Boolean(v) == [t |-> "Boolean", b |-> v]
Toml_Integer(v) == [t |-> "Integer", i |-> v]
Toml_Float(v) == [t |-> "Float", f |-> v]
Toml_String(v) == [t |-> "String", s |-> v]
Toml_Array(v) == [t |-> "Array", items |-> v]
Toml_InlineTable(keys, vals) == [t |-> "InlineTable", keys |-> keys, vals |-> vals]

\* toml_edit::InlineTable::new()
InlineTable_new == Toml_InlineTable(<<>>, <<>>)

\* A mutation of InlineTable_insert: the new entry goes to the front.
InlineTable_insert_front(m, k, v) ==
    IF \E i \in 1..Len(m.keys) : m.keys[i] = k
    THEN Toml_InlineTable(m.keys,
             [i \in 1..Len(m.keys) |-> IF m.keys[i] = k THEN v ELSE m.vals[i]])
    ELSE Toml_InlineTable(<<k>> \o m.keys, <<v>> \o m.vals)

\* m.insert(k, v): an existing key keeps its position and takes the new
\* value, a new key is appended (the table is insertion-ordered).
InlineTable_insert(m, k, v) ==
    IF \E i \in 1..Len(m.keys) : m.keys[i] = k
    THEN Toml_InlineTable(m.keys,
             [i \in 1..Len(m.keys) |-> IF m.keys[i] = k THEN v ELSE m.vals[i]])
    ELSE Toml_InlineTable(Append(m.keys, k), Append(m.vals, v))

\* toml_edit::Value::as_str(): Some(s) for a String, None otherwise.
as_str(tv) == IF tv.t = "String" THEN [some |-> TRUE, s |-> tv.s] ELSE [some |-> FALSE]

(***************************************************************************)
(* Formatting.                                                             *)
(***************************************************************************)
Digits == <<"0", "1", "2", "3", "4", "5", "6", "7", "8", "9">>

RECURSIVE NatToString(_)
NatToString(n) ==
    IF n < 10 THEN Digits[n + 1]
    ELSE NatToString(n \div 10) \o Digits[(n % 10) + 1]

\* i64::to_string()
i64_to_string(n) == IF n < 0 THEN "-" \o NatToString(0 - n) ELSE NatToString(n)

Pad2(n) == IF n < 10 THEN "0" \o NatToString(n) ELSE NatToString(n)

\* {:04} of a number that is not negative
Pad4(n) ==
    IF n < 10 THEN "000" \o NatToString(n)
    ELSE IF n < 100 THEN "00" \o NatToString(n)
    ELSE IF n < 1000 THEN "0" \o NatToString(n)
    ELSE NatToString(n)

\* The year of a chrono date: {:04} for 0..=9999, {:+05} otherwise (a sign,
\* then at least four digits).
year_to_string(year) ==
    IF year >= 0 /\ year <= 9999 THEN Pad4(year)
    ELSE IF year < 0 THEN "-" \o Pad4(0 - year)
    ELSE "+" \o Pad4(year)

\* DateTime<FixedOffset>::to_string(): "YYYY-MM-DD HH:MM:SS +HH:MM"
date_to_string(d) ==
    year_to_string(d.year) \o "-" \o Pad2(d.month) \o "-" \o Pad2(d.day) \o " "
      \o Pad2(d.hour) \o ":" \o Pad2(d.min) \o ":" \o Pad2(d.sec) \o " "
      \o (IF d.off < 0 THEN "-" \o Pad2(0 - d.off) ELSE "+" \o Pad2(d.off)) \o ":00"

(***************************************************************************)
(* Value::get_type, Value::span and the renderings of Type.                *)
(***************************************************************************)
\* Value::get_type(): the Type variant of a value.
get_type(v) == IF v.kind = "CustomValue" THEN "Custom" ELSE v.kind

\* format!("{:?}", ty)
type_debug(ty) == ty

\* ty.to_string()
type_to_string(ty) ==
    CASE ty = "Bool" -> "bool"
      [] ty = "Int" -> "int"
      [] ty = "Filesize" -> "filesize"
      [] ty = "Duration" -> "duration"
      [] ty = "Date" -> "date"
      [] ty = "Range" -> "range"
      [] ty = "Float" -> "float"
      [] ty = "String" -> "string"
      [] ty = "Record" -> "record"
      [] ty = "List" -> "list"
      [] ty = "Block" -> "block"
      [] ty = "Nothing" -> "nothing"
      [] ty = "Error" -> "error"
      [] ty = "Binary" -> "binary"
      [] ty = "CellPath" -> "cell path"
      [] OTHER -> "custom"

\* Value::span(): Err for Value::Error, which has no span of its own.
value_span(v) == IF v.kind = "Error" THEN Err(v.error) ELSE Ok(v.span)

\* Value::into_pipeline_data() and PipelineData::into_value(span)
into_pipeline_data(v) == [pd |-> "Value", v |-> v]
into_value(input, span) == input.v

(***************************************************************************)
(* helper: the recursive nu_protocol::Value -> toml_edit::Value converter. *)
(***************************************************************************)
RECURSIVE helper(_)
RECURSIVE toml_list_from(_, _, _)
RECURSIVE helper_record_from(_, _, _, _)

\* A mutation of helper_error: the error is rendered as a placeholder, as the
\* other unrepresentable kinds are.
helper_error_rendered(v) == Ok(Toml_String("<Error>"))

\* Value::Error { error } => return Err(error.clone())
helper_error(v) == Err(v.error)

\* for value in input { out.push(helper(value)?); }
toml_list_from(input, i, out) ==
    IF i > Len(input) THEN Ok(out)
    ELSE LET r == helper(input[i])
         IN  IF r.tag # "Ok" THEN r
             ELSE toml_list_from(input, i + 1, Append(out, r.v))

\* A mutation of toml_list: the elements are converted last to first (the
\* array still lists them in input order).
toml_list_reversed(input) ==
    LET n == Len(input)
        r == toml_list_from([i \in 1..n |-> input[n + 1 - i]], 1, <<>>)
    IN  IF r.tag # "Ok" THEN r ELSE Ok([i \in 1..n |-> r.v[n + 1 - i]])

\* A mutation of toml_list: the loop starts at the second element.
toml_list_skip_first(input) == toml_list_from(input, 2, <<>>)

\* fn toml_list(input: &[Value]) -> Result<toml_edit::Array, ShellError>
toml_list(input) == toml_list_from(input, 1, <<>>)

\* A mutation of helper_list: the shape test of the root is applied to
\* every list.
helper_list_gated(vals) ==
    IF Len(vals) >= 1 /\ vals[1].kind = "Record"
    THEN LET r == toml_list(vals)
         IN  IF r.tag # "Ok" THEN r ELSE Ok(Toml_Array(r.v))
    ELSE Err(UnsupportedInput(
             "Expected a table with TOML-compatible structure from pipeline",
             Span_unknown))

\* Value::List { vals, .. } => toml_edit::Value::Array(toml_list(vals)?)
helper_list(vals) ==
    LET r == toml_list(vals)
    IN  IF r.tag # "Ok" THEN r ELSE Ok(Toml_Array(r.v))

\* for (k, v) in cols.iter().zip(vals.iter()) { m.insert(k, helper(v)?); }
\* zip stops at the shorter of the two sequences.
helper_record_from(cols, vals, i, m) ==
    IF i > Min(Len(cols), Len(vals)) THEN Ok(m)
    ELSE LET r == helper(vals[i])
         IN  IF r.tag # "Ok" THEN r
             ELSE helper_record_from(cols, vals, i + 1,
                                     InlineTable_insert(m, cols[i], r.v))

\* Value::Record { cols, vals, .. } => { ...; toml_edit::Value::InlineTable(m) }
helper_record(cols, vals) == helper_record_from(cols, vals, 1, InlineTable_new)

\* A mutation of helper_binary: the byte is sign-extended (*x as i8 as i64).
helper_binary_signed(val) ==
    Toml_Array([i \in 1..Len(val) |->
        Toml_Integer(IF val[i] >= 128 THEN val[i] - 256 ELSE val[i])])

\* Value::Binary: one Integer per byte, *x as i64 (zero extension of a u8)
helper_binary(val) == Toml_Array([i \in 1..Len(val) |-> Toml_Integer(val[i])])

\* Value::CellPath: one String or Integer per path member
helper_cell_path(members) ==
    Toml_Array([i \in 1..Len(members) |->
        IF members[i].pm = "String" THEN Toml_String(members[i].key)
        ELSE Toml_Integer(members[i].idx)])

\* A mutation of helper_placeholder: Nothing is refused instead of rendered.
helper_placeholder_strict(v) ==
    CASE v.kind = "Range" -> Ok(Toml_String("<Range>"))
      [] v.kind = "Block" -> Ok(Toml_String("<Block>"))
      [] v.kind = "Nothing" -> Err(UnsupportedInput("Nothing is not valid TOML", v.span))
      [] v.kind = "CustomValue" -> Ok(Toml_String("<Custom Value>"))

\* The Range, Block, Nothing and CustomValue arms of helper: a fixed String.
helper_placeholder(v) ==
    CASE v.kind = "Range" -> Ok(Toml_String("<Range>"))
      [] v.kind = "Block" -> Ok(Toml_String("<Block>"))
      [] v.kind = "Nothing" -> Ok(Toml_String("<Nothing>"))
      [] v.kind = "CustomValue" -> Ok(Toml_String("<Custom Value>"))

helper(v) ==
    CASE v.kind = "Bool" -> Ok(Toml_Boolean(v.val_bool))
      [] v.kind = "Int" -> Ok(Toml_Integer(v.val))
      [] v.kind = "Filesize" -> Ok(Toml_Integer(v.val))
      [] v.kind = "Duration" -> Ok(Toml_String(i64_to_string(v.val)))
      [] v.kind = "Date" -> Ok(Toml_String(date_to_string(v.val_date)))
      [] v.kind = "Range" -> helper_placeholder(v)
      [] v.kind = "Float" -> Ok(Toml_Float(v.val))
      [] v.kind = "String" -> Ok(Toml_String(v.val_str))
      [] v.kind = "Record" -> helper_record(v.cols, v.vals)
      [] v.kind = "List" -> helper_list(v.vals)
      [] v.kind = "Block" -> helper_placeholder(v)
      [] v.kind = "Nothing" -> helper_placeholder(v)
      [] v.kind = "Error" -> helper_error(v)
      [] v.kind = "Binary" -> Ok(helper_binary(v.val_bytes))
      [] v.kind = "CellPath" -> Ok(helper_cell_path(v.members))
      [] v.kind = "CustomValue" -> helper_placeholder(v)

(***************************************************************************)
(* The values helper is invoked on, in call order.  A failing child ends   *)
(* the walk: the ? operator returns before the next child is visited.      *)
(***************************************************************************)
RECURSIVE helper_visits(_)
RECURSIVE children_visits(_, _)

children_visits(children, i) ==
    IF i > Len(children) THEN <<>>
    ELSE helper_visits(children[i]) \o
           (IF helper(children[i]).tag = "Ok"
            THEN children_visits(children, i + 1) ELSE <<>>)

helper_visits(v) ==
    <<v>> \o
      (CASE v.kind = "Record" ->
              children_visits(SubSeq(v.vals, 1, Min(Len(v.cols), Len(v.vals))), 1)
         [] v.kind = "List" -> children_visits(v.vals, 1)
         [] OTHER -> <<>>)

(***************************************************************************)
(* The embedded-document path of value_to_toml_value.                      *)
(***************************************************************************)
\* val.as_str().parse::<toml_edit::Document>(), which from_str starts with: a
\* reader of TOML, rule by rule of its grammar.  Beyond TOML 1.0 it reads
\* the escapes \e and \xHH, a time without seconds, and newlines, comments
\* and a trailing comma inside an inline table.

(***************************************************************************)
(* Characters.  A text is a string; At reads one character of it, and the  *)
(* empty string stands for the end of the text.                            *)
(***************************************************************************)
At(s, i) == IF i >= 1 /\ i <= Len(s) THEN SubSeq(s, i, i) ELSE ""

\* s from position i to its end
Rest(s, i) == SubSeq(s, i, Len(s))

\* does s hold the text p at position i
StartsWith(s, i, p) == i + Len(p) - 1 <= Len(s) /\ SubSeq(s, i, i + Len(p) - 1) = p

CharsOf(s) == {SubSeq(s, i, i) : i \in 1..Len(s)}

DigitChars == CharsOf("0123456789")
HexChars == CharsOf("0123456789abcdefABCDEF")
AlphaChars == CharsOf("abcdefghijklmnopqrstuvwxyzABCDEFGHIJKLMNOPQRSTUVWXYZ")

\* U+0020 .. U+007E in code point order, without U+0060 (a string of this
\* language cannot hold it)
VisibleText ==
    " !\"#$%&'()*+,-./0123456789:;<=>?@ABCDEFGHIJKLMNOPQRSTUVWXYZ[\\]^_abcdefghijklmnopqrstuvwxyz{|}~"

\* non-eol = %x09 / %x20-7E / non-ascii
NonEolChars == CharsOf(VisibleText) \cup {"\t"}
\* unquoted-key = 1*( ALPHA / DIGIT / %x2D / %x5F )
BareKeyChars == AlphaChars \cup DigitChars \cup {"-", "_"}
\* basic-unescaped = wschar / %x21 / %x23-5B / %x5D-7E / non-ascii
BasicUnescapedChars == NonEolChars \ {"\"", "\\"}
\* literal-char = %x09 / %x20-26 / %x28-7E / non-ascii
LiteralChars == NonEolChars \ {"'"}
\* the characters of a boolean, a number or a date-time
ScalarChars == AlphaChars \cup DigitChars \cup {"+", "-", "_", ".", ":"}

\* the first position from i on whose character is not in set
SkipWhile(s, i, set) ==
    CHOOSE j \in i..(Len(s) + 1) :
        /\ \A k \in i..(j - 1) : At(s, k) \in set
        /\ At(s, j) \notin set

\* ws = *wschar, wschar = %x20 / %x09
ws(s, i) == SkipWhile(s, i, {" ", "\t"})

\* the length of the newline at position i: 0 when there is none
newline_len(s, i) ==
    IF At(s, i) = "\n" THEN 1
    ELSE IF StartsWith(s, i, "\r\n") THEN 2
    ELSE 0

\* comment = "#" *non-eol, when one starts at i; the position after it
comment(s, i) == IF At(s, i) = "#" THEN SkipWhile(s, i + 1, NonEolChars) ELSE i

\* ws-comment-newline = *( wschar / [ comment ] newline ): the position after it
RECURSIVE ws_comment_newline(_, _)
ws_comment_newline(s, i) ==
    LET j == comment(s, ws(s, i))
        n == newline_len(s, j)
    IN  IF n > 0 THEN ws_comment_newline(s, j + n) ELSE ws(s, i)

\* the outcome of a parser: it fails, or it yields v and stops at pos
Fail == [ok |-> FALSE]
Done(pos, v) == [ok |-> TRUE, pos |-> pos, v |-> v]

\* `let r = e; K(r)`: e is evaluated once for all its uses in K
with(e, K(_)) == K(e)

\* the sequencing of two parsers: K goes on from the outcome r of the first
\* one when that did not fail
and_then(r, K(_)) == IF r.ok THEN K(r) ELSE Fail

(***************************************************************************)
(* Strings of a TOML document.                                             *)
(***************************************************************************)
HexDigitText == "0123456789abcdef"

\* the value of one digit, in any radix up to 16
DigitVal(c) ==
    CHOOSE d \in 0..15 : At(HexDigitText, d + 1) = c \/ At("0123456789ABCDEF", d + 1) = c

\* the number written by the digits of s from position i on
RECURSIVE RadixValue(_, _, _, _)
RadixValue(s, radix, i, acc) ==
    IF i > Len(s) THEN acc ELSE RadixValue(s, radix, i + 1, acc * radix + DigitVal(At(s, i)))

RECURSIVE NatToHex(_)
NatToHex(n) ==
    IF n < 16 THEN At(HexDigitText, n + 1)
    ELSE NatToHex(n \div 16) \o At(HexDigitText, (n % 16) + 1)

\* The character with a code point.  The texts of the model are made of
\* U+0009, U+000A, U+000C, U+000D and U+0020..U+007E without U+0060; any
\* other scalar value is written \u{h}.
char_from_u32(code) ==
    CASE code = 9 -> "\t"
      [] code = 10 -> "\n"
      [] code = 12 -> "\f"
      [] code = 13 -> "\r"
      [] code >= 32 /\ code <= 95 -> At(VisibleText, code - 31)
      [] code >= 97 /\ code <= 126 -> At(VisibleText, code - 32)
      [] OTHER -> "\\u{" \o NatToHex(code) \o "}"

\* \xHH, \uXXXX and \UXXXXXXXX: n hex digits at position i
unicode_escape(s, i, n) ==
    LET hex == SubSeq(s, i, i + n - 1)
        \* the digits that can be other than 0 in a scalar value
        low == IF n = 8 THEN SubSeq(hex, 3, 8) ELSE hex
        code == RadixValue(low, 16, 1, 0)
    IN  IF i + n - 1 > Len(s) \/ \E k \in 1..n : At(hex, k) \notin HexChars THEN Fail
        ELSE IF n = 8 /\ SubSeq(hex, 1, 2) # "00" THEN Fail
        \* a Unicode scalar value: up to U+10FFFF and no surrogate
        ELSE IF code > 1114111 \/ (code >= 55296 /\ code <= 57343) THEN Fail
        ELSE Done(i + n, char_from_u32(code))

\* escaped = "\" ( %x22 / %x5C / b / e / f / n / r / t / xHH / uXXXX /
\* UXXXXXXXX ), i is the position after the backslash
escape(s, i) ==
    LET c == At(s, i)
    IN  CASE c = "\"" -> Done(i + 1, "\"")
          [] c = "\\" -> Done(i + 1, "\\")
          [] c = "b" -> Done(i + 1, char_from_u32(8))
          [] c = "e" -> Done(i + 1, char_from_u32(27))
          [] c = "f" -> Done(i + 1, "\f")
          [] c = "n" -> Done(i + 1, "\n")
          [] c = "r" -> Done(i + 1, "\r")
          [] c = "t" -> Done(i + 1, "\t")
          [] c = "x" -> unicode_escape(s, i + 1, 2)
          [] c = "u" -> unicode_escape(s, i + 1, 4)
          [] c = "U" -> unicode_escape(s, i + 1, 8)
          [] OTHER -> Fail

\* basic-string = quotation-mark *basic-char quotation-mark, i is the
\* position after the opening quotation mark
RECURSIVE basic_chars(_, _, _)
basic_chars(s, i, acc) ==
    LET c == At(s, i)
        \* the run of characters that stand for themselves
        j == SkipWhile(s, i, BasicUnescapedChars)
    IN  CASE c = "\"" -> Done(i + 1, acc)
          [] c = "\\" ->
               LET e == escape(s, i + 1)
               IN  IF e.ok THEN basic_chars(s, e.pos, acc \o e.v) ELSE Fail
          [] c \in BasicUnescapedChars -> basic_chars(s, j, acc \o SubSeq(s, i, j - 1))
          [] OTHER -> Fail

\* n quotation marks (or apostrophes)
RECURSIVE Repeat(_, _)
Repeat(c, n) == IF n <= 0 THEN "" ELSE c \o Repeat(c, n - 1)

\* the position after the whitespace and newlines from i on
RECURSIVE skip_ws_newlines(_, _)
skip_ws_newlines(s, i) ==
    LET j == ws(s, i)
        n == newline_len(s, j)
    IN  IF n > 0 THEN skip_ws_newlines(s, j + n) ELSE j

\* ml-basic-body and the closing delimiter: up to two quotation marks may
\* stand in the body, and before the delimiter; a newline of the body is
\* kept as it is written
RECURSIVE ml_basic_body(_, _, _)
ml_basic_body(s, i, acc) ==
    LET c == At(s, i)
        q == SkipWhile(s, i, {"\""}) - i
        n == newline_len(s, i)
        \* the run of characters that stand for themselves
        j == SkipWhile(s, i, BasicUnescapedChars)
    IN  CASE c = "\"" ->
               IF q >= 3 THEN Done(i + Min(q, 5), acc \o Repeat("\"", Min(q, 5) - 3))
               ELSE ml_basic_body(s, i + q, acc \o Repeat("\"", q))
          [] c = "\\" ->
               IF newline_len(s, ws(s, i + 1)) > 0
               THEN ml_basic_body(s, skip_ws_newlines(s, i + 1), acc)
               ELSE LET e == escape(s, i + 1)
                    IN  IF e.ok THEN ml_basic_body(s, e.pos, acc \o e.v) ELSE Fail
          [] n > 0 -> ml_basic_body(s, i + n, acc \o SubSeq(s, i, i + n - 1))
          [] c \in BasicUnescapedChars -> ml_basic_body(s, j, acc \o SubSeq(s, i, j - 1))
          [] OTHER -> Fail

\* literal-string = apostrophe *literal-char apostrophe
literal_string(s, i) ==
    LET j == SkipWhile(s, i + 1, LiteralChars)
    IN  IF At(s, j) = "'" THEN Done(j + 1, SubSeq(s, i + 1, j - 1)) ELSE Fail

RECURSIVE ml_literal_body(_, _, _)
ml_literal_body(s, i, acc) ==
    LET c == At(s, i)
        q == SkipWhile(s, i, {"'"}) - i
        n == newline_len(s, i)
        \* the run of characters that stand for themselves
        j == SkipWhile(s, i, LiteralChars)
    IN  CASE c = "'" ->
               IF q >= 3 THEN Done(i + Min(q, 5), acc \o Repeat("'", Min(q, 5) - 3))
               ELSE ml_literal_body(s, i + q, acc \o Repeat("'", q))
          [] n > 0 -> ml_literal_body(s, i + n, acc \o SubSeq(s, i, i + n - 1))
          [] c \in LiteralChars -> ml_literal_body(s, j, acc \o SubSeq(s, i, j - 1))
          [] OTHER -> Fail

\* string = ml-basic-string / basic-string / ml-literal-string / literal-string;
\* a newline right after the opening delimiter of a multi-line string is
\* trimmed
string(s, i) ==
    IF StartsWith(s, i, "\"\"\"") THEN ml_basic_body(s, i + 3 + newline_len(s, i + 3), "")
    ELSE IF At(s, i) = "\"" THEN basic_chars(s, i + 1, "")
    ELSE IF StartsWith(s, i, "'''") THEN ml_literal_body(s, i + 3 + newline_len(s, i + 3), "")
    ELSE IF At(s, i) = "'" THEN literal_string(s, i)
    ELSE Fail

(***************************************************************************)
(* Booleans, numbers and date-times of a TOML document.  Each is read as   *)
(* one token and then recognised by its shape.                             *)
(***************************************************************************)
\* the first position of t whose character is in set, 0 when there is none
FirstIndex(t, set) ==
    IF \E k \in 1..Len(t) : At(t, k) \in set
    THEN CHOOSE k \in 1..Len(t) :
             At(t, k) \in set /\ \A j \in 1..(k - 1) : At(t, j) \notin set
    ELSE 0

\* t without its sign
unsigned(t) == IF At(t, 1) \in {"+", "-"} THEN Rest(t, 2) ELSE t

\* DIGIT *( DIGIT / underscore DIGIT ), over the digits of a radix
digits_with_underscores(t, set) ==
    /\ Len(t) >= 1
    /\ \A k \in 1..Len(t) :
           \/ At(t, k) \in set
           \/ At(t, k) = "_" /\ At(t, k - 1) \in set /\ At(t, k + 1) \in set

\* dec-int = [ minus / plus ] unsigned-dec-int,
\* unsigned-dec-int = DIGIT / digit1-9 1*( DIGIT / underscore DIGIT )
is_dec_int(t) ==
    /\ digits_with_underscores(unsigned(t), DigitChars)
    /\ Len(unsigned(t)) = 1 \/ At(unsigned(t), 1) # "0"

\* hex-int, oct-int and bin-int: a prefix, then digits with underscores
is_prefixed_int(t, prefix, set) ==
    StartsWith(t, 1, prefix) /\ digits_with_underscores(Rest(t, 3), set)

\* t without its underscores
RECURSIVE strip_underscores(_)
strip_underscores(t) ==
    LET u == FirstIndex(t, {"_"})
    IN  IF u = 0 THEN t ELSE SubSeq(t, 1, u - 1) \o strip_underscores(Rest(t, u + 1))

\* t without its leading zeros; "0" for a text of zeros
strip_leading_zeros(t) ==
    LET k == SkipWhile(t, 1, {"0"})
    IN  IF k > Len(t) THEN "0" ELSE Rest(t, k)

\* a <= b, for digit texts of one length
digits_leq(a, b) ==
    \/ a = b
    \/ \E k \in 1..Len(a) :
           /\ SubSeq(a, 1, k - 1) = SubSeq(b, 1, k - 1)
           /\ DigitVal(At(a, k)) < DigitVal(At(b, k))

\* An integer this model cannot hold as a number (it is beyond 32 bits) is
\* kept as its sign, its radix and its digits.
Toml_Integer_wide(neg, radix, digits) ==
    [t |-> "Integer", wide |-> [neg |-> neg, radix |-> radix, digits |-> digits]]

\* i64::from_str_radix on digits without underscores: does it overflow
i64_overflows(neg, radix, digits) ==
    CASE radix = 10 ->
             \/ Len(digits) > 19
             \/ Len(digits) = 19
                  /\ ~digits_leq(digits, IF neg THEN "9223372036854775808"
                                                ELSE "9223372036854775807")
      [] radix = 16 ->
             Len(digits) > 16 \/ (Len(digits) = 16 /\ DigitVal(At(digits, 1)) > 7)
      [] radix = 8 -> Len(digits) > 21
      [] radix = 2 -> Len(digits) > 63

\* does the number fit the integers of the model
fits_model(radix, digits) ==
    CASE radix = 10 -> Len(digits) <= 9
      [] radix = 16 -> Len(digits) <= 7
      [] radix = 8 -> Len(digits) <= 10
      [] radix = 2 -> Len(digits) <= 30

parse_i64(neg, radix, text) ==
    LET digits == strip_leading_zeros(strip_underscores(text))
    IN  IF i64_overflows(neg, radix, digits) THEN [ok |-> FALSE]
        ELSE IF fits_model(radix, digits)
        THEN [ok |-> TRUE,
              v |-> Toml_Integer(IF neg THEN 0 - RadixValue(digits, radix, 1, 0)
                                 ELSE RadixValue(digits, radix, 1, 0))]
        ELSE [ok |-> TRUE, v |-> Toml_Integer_wide(neg, radix, digits)]

is_integer(t) ==
    \/ is_dec_int(t)
    \/ is_prefixed_int(t, "0x", HexChars)
    \/ is_prefixed_int(t, "0o", CharsOf("01234567"))
    \/ is_prefixed_int(t, "0b", CharsOf("01"))

\* integer = dec-int / hex-int / oct-int / bin-int
integer(t) ==
    LET radix == IF is_dec_int(t) THEN 10
                 ELSE IF StartsWith(t, 1, "0x") THEN 16
                 ELSE IF StartsWith(t, 1, "0o") THEN 8
                 ELSE 2
    IN  parse_i64(At(t, 1) = "-", radix, IF radix = 10 THEN unsigned(t) ELSE Rest(t, 3))

\* float = float-int-part ( exp / frac [ exp ] ) / special-float
is_float(t) ==
    LET e == FirstIndex(t, {"e", "E"})
        mantissa == IF e = 0 THEN t ELSE SubSeq(t, 1, e - 1)
        exponent == IF e = 0 THEN "" ELSE Rest(t, e + 1)
        dot == FirstIndex(mantissa, {"."})
        int_part == IF dot = 0 THEN mantissa ELSE SubSeq(mantissa, 1, dot - 1)
        frac == IF dot = 0 THEN "" ELSE Rest(mantissa, dot + 1)
    IN  \/ unsigned(t) \in {"inf", "nan"}
        \/ /\ e # 0 \/ dot # 0
           /\ is_dec_int(int_part)
           /\ dot # 0 => digits_with_underscores(frac, DigitChars)
           /\ e # 0 => digits_with_underscores(unsigned(exponent), DigitChars)

\* An f64 read from a document is kept as the text that denotes it.
Toml_Float_text(tok) == [t |-> "Float", text |-> strip_underscores(tok)]

\* Does str::parse::<f64>() round the literal to an infinity.  The literal is
\* 0.sig * 10^exp10 with sig its digits from the first one that is not 0; it
\* rounds to an infinity from 2^1024 - 2^970 on, the middle of f64::MAX and
\* 2^1024, a number of 309 digits.
f64_overflows(tok) ==
    LET t == strip_underscores(unsigned(tok))
        e == FirstIndex(t, {"e", "E"})
        mantissa == IF e = 0 THEN t ELSE SubSeq(t, 1, e - 1)
        exponent == IF e = 0 THEN "" ELSE Rest(t, e + 1)
        dot == FirstIndex(mantissa, {"."})
        int_part == IF dot = 0 THEN mantissa ELSE SubSeq(mantissa, 1, dot - 1)
        frac == IF dot = 0 THEN "" ELSE Rest(mantissa, dot + 1)
        first == SkipWhile(int_part \o frac, 1, {"0"})
        sig == Rest(int_part \o frac, first)
        exp_digits == IF e = 0 THEN "0" ELSE strip_leading_zeros(unsigned(exponent))
        exp_neg == At(exponent, 1) = "-"
        exp10 == Len(int_part) - (first - 1)
                     + (IF exp_neg THEN 0 - RadixValue(exp_digits, 10, 1, 0)
                        ELSE RadixValue(exp_digits, 10, 1, 0))
        middle == "179769313486231580793728971405303415079934132710037826936173778980444968292764750946649017977587207096330286416692887910946555547851940402630657488671505820681908902000708383676273854845817711531764475730270069855571366959622842914819860834936475292719074168444365510704342711559699508093042880177904174497792"
        n == Min(Len(sig), Len(middle))
        below == \E k \in 1..n :
                     /\ SubSeq(sig, 1, k - 1) = SubSeq(middle, 1, k - 1)
                     /\ DigitVal(At(sig, k)) < DigitVal(At(middle, k))
    IN  /\ t \notin {"inf", "nan"}
        /\ sig # ""
        /\ IF Len(exp_digits) > 5 THEN ~exp_neg
           ELSE \/ exp10 > Len(middle)
                \/ exp10 = Len(middle) /\ ~below /\ (Len(sig) >= Len(middle)
                                                     \/ SubSeq(sig, 1, n) # SubSeq(middle, 1, n))

\* float: the f64 of a token that has the shape of one, an error when a
\* finite literal does not fit an f64
float(tok) ==
    IF f64_overflows(tok) THEN [ok |-> FALSE]
    ELSE [ok |-> TRUE, v |-> Toml_Float_text(tok)]

all_digits(t) == \A k \in 1..Len(t) : At(t, k) \in DigitChars
in_range(t, lo, hi) ==
    all_digits(t) /\ RadixValue(t, 10, 1, 0) >= lo /\ RadixValue(t, 10, 1, 0) <= hi

\* full-date = date-fullyear "-" date-month "-" date-mday, the day one of
\* the month in that year
is_full_date(t) ==
    /\ Len(t) = 10
    /\ all_digits(SubSeq(t, 1, 4))
    /\ At(t, 5) = "-" /\ in_range(SubSeq(t, 6, 7), 1, 12)
    /\ At(t, 8) = "-" /\ in_range(SubSeq(t, 9, 10), 1, 31)
    /\ LET year == RadixValue(SubSeq(t, 1, 4), 10, 1, 0)
           month == RadixValue(SubSeq(t, 6, 7), 10, 1, 0)
           is_leap_year == (year % 4 = 0 /\ year % 100 # 0) \/ year % 400 = 0
       IN  RadixValue(SubSeq(t, 9, 10), 10, 1, 0) <=
               (CASE month = 2 -> IF is_leap_year THEN 29 ELSE 28
                  [] month \in {4, 6, 9, 11} -> 30
                  [] OTHER -> 31)

\* partial-time = time-hour ":" time-minute [ ":" time-second [ time-secfrac ] ]
is_partial_time(t) ==
    /\ Len(t) >= 5
    /\ in_range(SubSeq(t, 1, 2), 0, 23)
    /\ At(t, 3) = ":" /\ in_range(SubSeq(t, 4, 5), 0, 59)
    /\ Len(t) > 5 => (Len(t) >= 8 /\ At(t, 6) = ":" /\ in_range(SubSeq(t, 7, 8), 0, 60))
    /\ Len(t) > 8 => (At(t, 9) = "." /\ Len(t) >= 10 /\ all_digits(Rest(t, 10)))

\* time-offset = "Z" / time-numoffset
is_time_offset(t) ==
    \/ t \in {"Z", "z"}
    \/ /\ Len(t) = 6 /\ At(t, 1) \in {"+", "-"}
       /\ in_range(SubSeq(t, 2, 3), 0, 23)
       /\ At(t, 4) = ":" /\ in_range(SubSeq(t, 5, 6), 0, 59)

\* partial-time [ time-offset ]
is_time(t) ==
    LET o == FirstIndex(t, {"Z", "z", "+", "-"})
    IN  IF o = 0 THEN is_partial_time(t)
        ELSE is_partial_time(SubSeq(t, 1, o - 1)) /\ is_time_offset(Rest(t, o))

\* date-time = offset-date-time / local-date-time / local-date / local-time
is_date_time(t) ==
    \/ is_full_date(t)
    \/ is_partial_time(t)
    \/ /\ Len(t) >= 12
       /\ is_full_date(SubSeq(t, 1, 10)) /\ At(t, 11) \in {"T", "t"} /\ is_time(Rest(t, 12))

\* The date-time a token denotes: the date <<year, month, day>>, the time
\* <<hour, minute, second, nanosecond>>, or <<hour, minute>> when the seconds
\* are not written, and the offset ("Z" or the numeric offset as written); a
\* part the token does not have is empty.
Toml_Datetime(tok) ==
    LET has_date == Len(tok) >= 10 /\ is_full_date(SubSeq(tok, 1, 10))
        time_text == IF ~has_date THEN tok ELSE IF Len(tok) > 10 THEN Rest(tok, 12) ELSE ""
        o == FirstIndex(time_text, {"Z", "z", "+", "-"})
        partial == IF o = 0 THEN time_text ELSE SubSeq(time_text, 1, o - 1)
        nanos == SubSeq(Rest(partial, 10) \o "000000000", 1, 9)
    IN  [t |-> "Datetime",
         date |-> IF has_date
                  THEN <<RadixValue(SubSeq(tok, 1, 4), 10, 1, 0),
                         RadixValue(SubSeq(tok, 6, 7), 10, 1, 0),
                         RadixValue(SubSeq(tok, 9, 10), 10, 1, 0)>>
                  ELSE <<>>,
         time |-> IF time_text = "" THEN <<>>
                  ELSE IF Len(partial) = 5
                  THEN <<RadixValue(SubSeq(partial, 1, 2), 10, 1, 0),
                         RadixValue(SubSeq(partial, 4, 5), 10, 1, 0)>>
                  ELSE <<RadixValue(SubSeq(partial, 1, 2), 10, 1, 0),
                         RadixValue(SubSeq(partial, 4, 5), 10, 1, 0),
                         RadixValue(SubSeq(partial, 7, 8), 10, 1, 0),
                         RadixValue(nanos, 10, 1, 0)>>,
         offset |-> IF o = 0 THEN ""
                    ELSE IF Rest(time_text, o) = "z" THEN "Z"
                    ELSE Rest(time_text, o)]

(***************************************************************************)
(* Keys and values of a TOML document.                                     *)
(***************************************************************************)
\* simple-key = quoted-key / unquoted-key
simple_key(s, i) ==
    LET j == SkipWhile(s, i, BareKeyChars)
    IN  IF At(s, i) = "\"" THEN basic_chars(s, i + 1, "")
        ELSE IF At(s, i) = "'" THEN literal_string(s, i)
        ELSE IF j > i THEN Done(j, SubSeq(s, i, j - 1))
        ELSE Fail

\* key = simple-key / dotted-key: the path of simple keys, acc those read
RECURSIVE toml_key(_, _, _)
toml_key(s, i, acc) ==
    and_then(simple_key(s, i), LAMBDA k :
        IF At(s, ws(s, k.pos)) = "."
        THEN toml_key(s, ws(s, ws(s, k.pos) + 1), Append(acc, k.v))
        ELSE Done(k.pos, Append(acc, k.v)))

\* the position of key k in keys, 0 when it is not there
KeyIndex(keys, k) ==
    IF \E i \in 1..Len(keys) : keys[i] = k
    THEN CHOOSE i \in 1..Len(keys) : keys[i] = k
    ELSE 0

\* An inline table that a dotted key made while its enclosing inline table
\* is read: until that one is closed, further dotted keys may add to it.
InlineTable_dotted == [t |-> "InlineTable", keys |-> <<>>, vals |-> <<>>, dotted |-> TRUE]

\* An inline table takes the value v at a path of keys: a key on the way is
\* new or names an inline table made by a dotted key, the last key is new.
RECURSIVE inline_table_insert(_, _, _, _)
inline_table_insert(m, path, i, v) ==
    LET k == path[i]
        idx == KeyIndex(m.keys, k)
        child == inline_table_insert(IF idx = 0 THEN InlineTable_dotted ELSE m.vals[idx],
                                     path, i + 1, v)
    IN  IF i = Len(path)
        THEN IF idx # 0 THEN [ok |-> FALSE]
             ELSE [ok |-> TRUE,
                   v |-> [m EXCEPT !.keys = Append(m.keys, k), !.vals = Append(m.vals, v)]]
        ELSE IF idx # 0 /\ ~(m.vals[idx].t = "InlineTable" /\ "dotted" \in DOMAIN m.vals[idx])
        THEN [ok |-> FALSE]
        ELSE IF ~child.ok THEN [ok |-> FALSE]
        ELSE IF idx = 0
        THEN [ok |-> TRUE,
              v |-> [m EXCEPT !.keys = Append(m.keys, k), !.vals = Append(m.vals, child.v)]]
        ELSE [ok |-> TRUE, v |-> [m EXCEPT !.vals[idx] = child.v]]

\* the inline table without the marks of the tables in it
RECURSIVE inline_table_close(_)
inline_table_close(item) ==
    IF item.t = "InlineTable"
    THEN Toml_InlineTable(item.keys,
             [i \in 1..Len(item.vals) |-> inline_table_close(item.vals[i])])
    ELSE item

\* a boolean, a number or a date-time: the token at i, by its shape
scalar(s, i) ==
    LET j == SkipWhile(s, i, ScalarChars)
        tok == SubSeq(s, i, j - 1)
        \* a date and a time may be separated by a space
        j2 == SkipWhile(s, j + 1, ScalarChars)
        tok2 == SubSeq(s, j + 1, j2 - 1)
    IN  IF tok = "" THEN Fail
        ELSE IF is_full_date(tok) /\ At(s, j) = " " /\ is_time(tok2)
        THEN Done(j2, Toml_Datetime(tok \o "T" \o tok2))
        ELSE IF tok \in {"true", "false"} THEN Done(j, Toml_Boolean(tok = "true"))
        ELSE IF is_integer(tok) THEN and_then(integer(tok), LAMBDA n : Done(j, n.v))
        ELSE IF is_float(tok) THEN and_then(float(tok), LAMBDA f : Done(j, f.v))
        ELSE IF is_date_time(tok) THEN Done(j, Toml_Datetime(tok))
        ELSE Fail

RECURSIVE toml_val(_, _)
RECURSIVE array_values(_, _, _)
RECURSIVE inline_table_keyvals(_, _, _)

\* array = "[" [ array-values ] ws-comment-newline "]", i is the position
\* after the bracket or after a comma, acc the values read
array_values(s, i, acc) ==
    LET j == ws_comment_newline(s, i)
    IN  IF At(s, j) = "]" THEN Done(j + 1, Toml_Array(acc))
        ELSE and_then(toml_val(s, j), LAMBDA v :
                 LET k == ws_comment_newline(s, v.pos)
                 IN  IF At(s, k) = "," THEN array_values(s, k + 1, Append(acc, v.v))
                     ELSE IF At(s, k) = "]" THEN Done(k + 1, Toml_Array(Append(acc, v.v)))
                     ELSE Fail)

\* inline-table-keyvals = keyval ws-comment-newline
\*     [ "," ws-comment-newline [ inline-table-keyvals ] ],
\* then the closing brace; m is the table read so far.  Inside an inline
\* table newlines and comments may also stand on both sides of the "=".
inline_table_keyvals(s, i, m) ==
    and_then(toml_key(s, i, <<>>), LAMBDA k :
        IF At(s, ws_comment_newline(s, k.pos)) # "=" THEN Fail
        ELSE and_then(toml_val(s, ws_comment_newline(s, ws_comment_newline(s, k.pos) + 1)),
                      LAMBDA v :
             and_then(inline_table_insert(m, k.v, 1, v.v), LAMBDA m2 :
                 LET a == ws_comment_newline(s, v.pos)
                     b == ws_comment_newline(s, a + 1)
                 IN  IF At(s, a) = "}" THEN Done(a + 1, inline_table_close(m2.v))
                     ELSE IF At(s, a) # "," THEN Fail
                     \* a comma may stand after the last pair
                     ELSE IF At(s, b) = "}" THEN Done(b + 1, inline_table_close(m2.v))
                     ELSE inline_table_keyvals(s, b, m2.v))))

\* inline-table = "{" ws-comment-newline [ inline-table-keyvals ] "}"
inline_table(s, i) ==
    LET j == ws_comment_newline(s, i + 1)
    IN  IF At(s, j) = "}" THEN Done(j + 1, InlineTable_new)
        ELSE inline_table_keyvals(s, j, InlineTable_new)

\* val = string / boolean / array / inline-table / date-time / float / integer
toml_val(s, i) ==
    LET c == At(s, i)
    IN  IF c \in {"\"", "'"}
        THEN and_then(string(s, i), LAMBDA str : Done(str.pos, Toml_String(str.v)))
        ELSE IF c = "[" THEN array_values(s, i + 1, <<>>)
        ELSE IF c = "{" THEN inline_table(s, i)
        ELSE scalar(s, i)

(***************************************************************************)
(* Tables of a TOML document.  While a document is read a table records    *)
(* whether it is implicit (made on the way to another table) and whether   *)
(* it is dotted (made by a dotted key).                                    *)
(***************************************************************************)
Toml_Table(keys, vals, implicit, dotted) ==
    [t |-> "Table", keys |-> keys, vals |-> vals, implicit |-> implicit, dotted |-> dotted]

Toml_ArrayOfTables(items) == [t |-> "ArrayOfTables", items |-> items]

\* the table an entry on a path stands for: an array of tables stands for
\* its last table
enter(entry) ==
    IF entry.t = "ArrayOfTables" THEN entry.items[Len(entry.items)] ELSE entry

\* the entry with that table replaced
leave(entry, table) ==
    IF entry.t = "ArrayOfTables"
    THEN [entry EXCEPT !.items[Len(entry.items)] = table]
    ELSE table

table_append(table, k, item) ==
    [table EXCEPT !.keys = Append(table.keys, k), !.vals = Append(table.vals, item)]

\* The last key of a path meets table.
\*   keyval: the key has to be new.
\*   std:    [key] makes a table, or defines one that is there, implicit
\*           and not dotted: that one is taken out of its parent and put
\*           back behind the other entries when the table ends.
\*   array:  [[key]] makes an array of tables or adds a table to one.
on_last_key(table, k, leaf) ==
    LET idx == KeyIndex(table.keys, k)
        entry == table.vals[idx]
        new_table == Toml_Table(<<>>, <<>>, FALSE, FALSE)
    IN  CASE leaf.op = "keyval" ->
               IF idx # 0 THEN [ok |-> FALSE]
               ELSE [ok |-> TRUE, v |-> table_append(table, k, leaf.v)]
          [] leaf.op = "std" ->
               IF idx = 0 THEN [ok |-> TRUE, v |-> table_append(table, k, new_table)]
               ELSE IF entry.t = "Table" /\ entry.implicit /\ ~entry.dotted
               THEN [ok |-> TRUE,
                     v |-> table_append(
                               [table EXCEPT
                                   !.keys = SubSeq(table.keys, 1, idx - 1)
                                                \o SubSeq(table.keys, idx + 1, Len(table.keys)),
                                   !.vals = SubSeq(table.vals, 1, idx - 1)
                                                \o SubSeq(table.vals, idx + 1, Len(table.vals))],
                               k, [entry EXCEPT !.implicit = FALSE])]
               ELSE [ok |-> FALSE]
          [] leaf.op = "array" ->
               IF idx = 0
               THEN [ok |-> TRUE,
                     v |-> table_append(table, k, Toml_ArrayOfTables(<<new_table>>))]
               ELSE IF entry.t = "ArrayOfTables"
               THEN [ok |-> TRUE,
                     v |-> [table EXCEPT !.vals[idx] =
                               Toml_ArrayOfTables(Append(entry.items, new_table))]]
               ELSE [ok |-> FALSE]

\* descend_path and what follows it.  From table, walk the path cur of the
\* current table (from c on), then the path of a key (from p on), making
\* the tables that are missing, and let the last key meet the table reached.
\* A value on the way is an error, and so is, for a dotted key, a table that
\* is not implicit; an array of tables on the way stands for its last table.
\* An implicit table a dotted key goes through counts as dotted from then
\* on, so that no header defines it later.  The table that takes the last
\* key of a dotted key has to be a dotted one, the table that takes a simple
\* key must not be one.
RECURSIVE descend_path(_, _, _, _, _, _)
descend_path(table, cur, c, path, p, leaf) ==
    LET walking == c <= Len(cur)
        k == IF walking THEN cur[c] ELSE path[p]
        idx == KeyIndex(table.keys, k)
        entry == table.vals[idx]
        dotted == leaf.op = "keyval"
        child == descend_path(
                     IF idx = 0 THEN Toml_Table(<<>>, <<>>, TRUE, dotted)
                     ELSE IF ~walking /\ dotted /\ entry.t = "Table"
                     THEN [entry EXCEPT !.dotted = TRUE]
                     ELSE enter(entry),
                     cur, IF walking THEN c + 1 ELSE c,
                     path, IF walking THEN p ELSE p + 1, leaf)
        mixed_table_types == table.dotted = (Len(path) = 1)
    IN  IF ~walking /\ p = Len(path)
        THEN IF dotted /\ mixed_table_types THEN [ok |-> FALSE]
             ELSE on_last_key(table, k, leaf)
        ELSE IF idx # 0 /\ entry.t \notin {"Table", "ArrayOfTables"} THEN [ok |-> FALSE]
        ELSE IF ~walking /\ idx # 0 /\ dotted /\ entry.t = "Table" /\ ~entry.implicit
        THEN [ok |-> FALSE]
        ELSE IF ~child.ok THEN [ok |-> FALSE]
        ELSE IF idx = 0 THEN [ok |-> TRUE, v |-> table_append(table, k, child.v)]
        ELSE [ok |-> TRUE, v |-> [table EXCEPT !.vals[idx] = leave(entry, child.v)]]

\* the document without the marks of its tables
RECURSIVE strip_marks(_)
strip_marks(item) ==
    CASE item.t = "Table" ->
             [t |-> "Table", keys |-> item.keys,
              vals |-> [i \in 1..Len(item.vals) |-> strip_marks(item.vals[i])]]
      [] item.t = "ArrayOfTables" ->
             Toml_ArrayOfTables([i \in 1..Len(item.items) |-> strip_marks(item.items[i])])
      [] OTHER -> item

\* the end of an expression: ws [ comment ], then a newline or the end
line_end(s, i) ==
    LET j == comment(s, ws(s, i))
        n == newline_len(s, j)
    IN  IF j > Len(s) THEN Done(j, TRUE)
        ELSE IF n > 0 THEN Done(j + n, TRUE)
        ELSE Fail

\* table = std-table / array-table, at the "[" at position i
table_header(s, i) ==
    LET is_array == At(s, i + 1) = "["
    IN  and_then(toml_key(s, ws(s, i + (IF is_array THEN 2 ELSE 1)), <<>>), LAMBDA k :
            IF ~StartsWith(s, ws(s, k.pos), IF is_array THEN "]]" ELSE "]") THEN Fail
            ELSE and_then(line_end(s, ws(s, k.pos) + (IF is_array THEN 2 ELSE 1)),
                     LAMBDA le :
                         Done(le.pos,
                              [path |-> k.v, op |-> IF is_array THEN "array" ELSE "std"])))

\* keyval = key keyval-sep val, then the end of the expression
keyval(s, i) ==
    and_then(toml_key(s, i, <<>>), LAMBDA k :
        IF At(s, ws(s, k.pos)) # "=" THEN Fail
        ELSE and_then(toml_val(s, ws(s, ws(s, k.pos) + 1)), LAMBDA v :
             and_then(line_end(s, v.pos), LAMBDA le :
                 Done(le.pos, [path |-> k.v, v |-> v.v]))))

\* toml = expression *( newline expression ): root is the document read so
\* far and cur the path of the table the key/value pairs go to
RECURSIVE expressions(_, _, _, _)
expressions(s, i, root, cur) ==
    LET j == ws(s, i)
        c == At(s, j)
    IN  IF c = "" THEN Done(j, root)
        ELSE IF newline_len(s, j) > 0 \/ c = "#"
        THEN and_then(line_end(s, j), LAMBDA le : expressions(s, le.pos, root, cur))
        ELSE IF c = "["
        THEN and_then(table_header(s, j), LAMBDA h :
             and_then(descend_path(root, <<>>, 1, h.v.path, 1, [op |-> h.v.op]),
                 LAMBDA hr : expressions(s, h.pos, hr.v, h.v.path)))
        ELSE and_then(keyval(s, j), LAMBDA kv :
             and_then(descend_path(root, cur, 1, kv.v.path, 1,
                                   [op |-> "keyval", v |-> kv.v.v]),
                 LAMBDA kr : expressions(s, kv.pos, kr.v, cur)))

\* str::parse::<toml_edit::Document>()
toml_document_parse(text) ==
    with(expressions(text, 1, Toml_Table(<<>>, <<>>, FALSE, FALSE), <<>>),
         LAMBDA doc : IF doc.ok THEN Ok(strip_marks(doc.v)) ELSE Err("TomlError"))

\* <String as Deserialize>::deserialize on a document: the document
\* deserializer offers a map, which the String visitor does not accept.
deserialize_String(doc) ==
    IF doc.t = "String" THEN Ok(doc.s) ELSE Err("invalid type: map, expected a string")

\* toml_edit::de::from_str::<String>(val): the target type is String because
\* the result is passed to toml_edit::Formatted::new inside Value::String.
from_str(text) ==
    with(toml_document_parse(text),
         LAMBDA d : IF d.tag # "Ok" THEN d ELSE deserialize_String(d.v))

(***************************************************************************)
(* format!("{:?}", val) of a str: char::escape_debug inside double quotes. *)
(***************************************************************************)
char_escape_debug(c) ==
    CASE c = "\"" -> "\\\""
      [] c = "\\" -> "\\\\"
      [] c = "\n" -> "\\n"
      [] c = "\r" -> "\\r"
      [] c = "\t" -> "\\t"
      [] c = "\f" -> "\\u{c}"
      [] OTHER -> c

\* the characters of s from position lo to position hi, each one escaped
RECURSIVE str_escape_debug(_, _, _)
str_escape_debug(s, lo, hi) ==
    IF lo > hi THEN ""
    ELSE IF lo = hi THEN char_escape_debug(At(s, lo))
    ELSE str_escape_debug(s, lo, (lo + hi) \div 2)
           \o str_escape_debug(s, ((lo + hi) \div 2) + 1, hi)

str_debug(val) == "\"" \o str_escape_debug(val, 1, Len(val)) \o "\""

\* Value::String { val, span } => { from_str(val).map_err(..).unwrap(); Ok(..) }
value_to_toml_value_string(val, span) ==
    with(from_str(val),
         LAMBDA str :
             IF str.tag # "Ok"
             THEN Panic(UnsupportedInput(
                      str_debug(val) \o " unable to de-serialize string to TOML", span))
             ELSE Ok(Toml_String(str.v)))

(***************************************************************************)
(* value_to_toml_value: the top-level gate.                                *)
(***************************************************************************)
\* A mutation of list_gate: an empty list passes, as "every element is a
\* Record" holds of it.
list_gate_vacuous(vals) == Len(vals) = 0 \/ vals[1].kind = "Record"

\* A mutation of list_gate: every element has to be a Record.
list_gate_all(vals) == Len(vals) >= 1 /\ \A i \in 1..Len(vals) : vals[i].kind = "Record"

\* match &vals[..] { [Value::Record { .. }, _end @ ..] => .., _ => .. }
list_gate(vals) == Len(vals) >= 1 /\ vals[1].kind = "Record"

\* v.span().unwrap_or_else(|_| Span::unknown())
span_or_unknown(v) == LET s == value_span(v) IN IF s.tag = "Ok" THEN s.v ELSE Span_unknown

\* A mutation of not_top_level: the span of the value is dropped.
not_top_level_nospan(v) ==
    Err(UnsupportedInput(type_debug(get_type(v)) \o " is not a valid top-level TOML",
                         Span_unknown))

\* the `_ =>` arm of value_to_toml_value
not_top_level(v) ==
    Err(UnsupportedInput(type_debug(get_type(v)) \o " is not a valid top-level TOML",
                         span_or_unknown(v)))

\* the `_ =>` arm of the match on a root list
not_a_table(span) ==
    Err(UnsupportedInput("Expected a table with TOML-compatible structure from pipeline",
                         span))

value_to_toml_value(v) ==
    CASE v.kind = "Record" -> helper(v)
      [] v.kind = "List" -> IF list_gate(v.vals) THEN helper(v) ELSE not_a_table(v.span)
      [] v.kind = "String" -> value_to_toml_value_string(v.val_str, v.span)
      [] OTHER -> not_top_level(v)

\* the values helper is invoked on during value_to_toml_value(v)
value_to_toml_value_visits(v) ==
    CASE v.kind = "Record" -> helper_visits(v)
      [] v.kind = "List" -> IF list_gate(v.vals) THEN helper_visits(v) ELSE <<>>
      [] OTHER -> <<>>

(***************************************************************************)
(* to_toml: the command.                                                   *)
(***************************************************************************)
toml_into_pipeline_data(toml_value, value_type, span) ==
    LET toml_string == as_str(toml_value)
    IN  IF toml_string.some
        THEN Ok(into_pipeline_data(Value_String(toml_string.s, span)))
        ELSE Ok(into_pipeline_data(
                 Value_Error(CantConvert("TOML", type_to_string(value_type), span))))

\* The toml value to_toml hands to toml_into_pipeline_data: the sole element
\* of a one-element Array whose element is a Table, else the value itself.
to_toml_select(toml_value) ==
    IF toml_value.t = "Array" /\ Len(toml_value.items) = 1 /\ toml_value.items[1].t = "Table"
    THEN toml_value.items[1]
    ELSE toml_value

to_toml(input, span) ==
    LET v == into_value(input, span)
        toml_value == value_to_toml_value(v)
    IN  IF toml_value.tag # "Ok" THEN toml_value
        ELSE toml_into_pipeline_data(to_toml_select(toml_value.v), get_type(v), span)

(***************************************************************************)
(* The input universe: value trees up to three containers deep.            *)
(***************************************************************************)
Spans == 0..MaxSpan

\* errors wrapped by the Value::Error values of the universe
Error1 == [e |-> "DivisionByZero", args |-> <<>>, span |-> 1]
Error2 == [e |-> "NonUtf8", args |-> <<>>, span |-> 0]

\* texts that are TOML documents: the text of test_value_to_toml_value and
\* shorter ones
TomlText_title == "title = \"x\""
TomlText_empty == ""
TomlText_integer == "a = 1"
TomlText_test ==
    "\n            title = \"TOML Example\"\n\n            [owner]\n"
      \o "            name = \"Tom Preston-Werner\"\n"
      \o "            dob = 1979-05-27T07:32:00-08:00 # First class dates\n\n"
      \o "            [dependencies]\n            rustyline = \"4.1.0\"\n"
      \o "            sysinfo = \"0.8.4\"\n"
      \o "            chrono = { version = \"0.4.6\", features = [\"serde\"] }\n"
      \o "            "

\* texts that are not TOML documents, with the characters that
\* format!("{:?}", val) escapes
Text_quote == "a\"b"
Text_backslash == "a\\b"
Text_newline == "a = 1\nb\tc\r"
Text_duplicate_key == "a = 1\na = 2"
TomlText_inline_table == "a = {b = 1,\n}"
Text_float_overflow == "a = 1e999"

Date1 == [year |-> 1979, month |-> 5, day |-> 27, hour |-> 7, min |-> 32, sec |-> 0,
          off |-> 0 - 8]

\* a date whose year is shorter than four digits
Date_year5 == [year |-> 5, month |-> 1, day |-> 2, hour |-> 3, min |-> 4, sec |-> 5,
               off |-> 1]

\* values that are not containers and only occur as a root
RootScalars ==
    { Value_Filesize(1024, 0), Value_Date(Date1, 0), Value_Block(0),
      Value_CellPath(<<PathMember_String("a"), PathMember_Int(0)>>, 0),
      Value_CustomValue(0), Value_Bool(TRUE, 0),
      Value_String(TomlText_title, 0), Value_String(TomlText_empty, 0),
      Value_String("not_valid", 0),
      Value_String(TomlText_integer, 0), Value_String(TomlText_test, 0),
      Value_String(Text_quote, 0), Value_String(Text_backslash, 0),
      Value_String(Text_newline, 0), Value_String(Text_duplicate_key, 0),
      Value_String(TomlText_inline_table, 0), Value_String(Text_float_overflow, 0) }

\* values that are not containers and occur at the root and inside containers
Scalars ==
    { Value_Int(42, 0), Value_Float(15, 0), Value_Duration(90, 0), Value_Range(0),
      Value_String("editor", 0), Value_Nothing(0), Value_Binary(<<1, 2, 255>>, 0),
      Value_Error(Error1), Value_Error(Error2), Value_String("1", 0) }

Keys == {"a", "b"}

SeqsOfLen(S, n) == [1..n -> S]
SeqsUpTo(S, n) == UNION {SeqsOfLen(S, k) : k \in 0..n}

ListsOver(S) == {Value_List(vs, 0) : vs \in SeqsUpTo(S, MaxLen)}

\* records: as many columns as values; a column name may repeat
RecordsOver(S) ==
    UNION {{Value_Record(cs, vs, 0) : cs \in SeqsOfLen(Keys, k), vs \in SeqsOfLen(S, k)}
             : k \in 0..MaxLen}

Level1 == ListsOver(Scalars) \cup RecordsOver(Scalars)

\* elements of the containers of depth two
Mid ==
    { Value_Int(42, 0), Value_Error(Error1), Value_Nothing(0),
      Value_Record(<<"a">>, <<Value_Int(42, 0)>>, 0),
      Value_Record(<<"a">>, <<Value_Error(Error2)>>, 0),
      Value_Record(<<"b", "a">>, <<Value_String("editor", 0), Value_Nothing(0)>>, 0),
      Value_List(<<Value_String("hello", 0), Value_String("array", 0)>>, 0),
      Value_List(<<Value_Error(Error2)>>, 0),
      Value_List(<<Value_Record(<<"a">>, <<Value_Int(42, 0)>>, 0)>>, 0),
      Value_List(<<>>, 0) }

Level2 == ListsOver(Mid) \cup RecordsOver(Mid)

\* elements of the containers of depth three
Deep ==
    { Value_Record(<<"a">>, <<Value_List(<<Value_Int(42, 0), Value_Error(Error2)>>, 0)>>, 0),
      Value_Record(<<"b">>,
          <<Value_List(<<Value_Record(<<"a">>, <<Value_Error(Error1)>>, 0)>>, 0)>>, 0),
      Value_Record(<<"a">>, <<Value_Record(<<"b">>, <<Value_Int(42, 0)>>, 0)>>, 0) }

Level3 == ListsOver(Deep) \cup RecordsOver(Deep)

\* every kind of value that is not a container, for the nested positions
\* the containers above leave out
Leaves ==
    RootScalars \cup Scalars \cup
    { Value_Binary(<<>>, 0), Value_Binary(<<0, 127, 128>>, 0), Value_Int(0 - 7, 0),
      Value_Duration(0 - 5, 0),
      Value_CellPath(<<>>, 0), Value_Bool(FALSE, 0),
      Value_Date([Date1 EXCEPT !.year = 979], 0), Value_Date(Date_year5, 0),
      Value_Date([Date_year5 EXCEPT !.year = 10000], 0),
      Value_Date([Date_year5 EXCEPT !.year = 0 - 44], 0) }

\* each leaf as the field of a record, as the element of a list in a
\* record, and as the second element of a list of records
Wrapped ==
    UNION {{ Value_Record(<<"a">>, <<l>>, 0),
             Value_Record(<<"a", "b">>, <<Value_List(<<l>>, 0), l>>, 0),
             Value_List(<<Value_Record(<<"b">>, <<l>>, 0), l>>, 0) } : l \in Leaves}

\* the record of test_value_to_toml_value
TestRecord ==
    Value_Record(<<"rust", "is", "features">>,
                 <<Value_String("editor", 0), Value_Nothing(0),
                   Value_List(<<Value_String("hello", 0), Value_String("array", 0)>>, 0)>>,
                 0)

Universe ==
    RootScalars \cup Scalars \cup Level1 \cup Level2 \cup Level3 \cup Wrapped
      \cup {TestRecord}

\* the root value carries its own span; Value::Error has none
Root(v, s) == IF v.kind = "Error" THEN v ELSE [v EXCEPT !.span = s]

Inputs == {Root(v, s) : v \in Universe, s \in Spans}

(***************************************************************************)
(* The state machine: one call of either entry point on one input.         *)
(***************************************************************************)
Init ==
    /\ value \in Inputs
    /\ head \in Spans
    /\ pc = "start"
    /\ res = NotCalled
    /\ emitted = NotCalled
    /\ ret = NotCalled
    /\ visited = <<>>
    /\ ctrlc = FALSE

\* value_to_toml_value(&value), as the unit test calls it
CallValueToTomlValue ==
    /\ pc = "start"
    /\ pc' = "value_to_toml_value"
    /\ res' = value_to_toml_value(value)
    /\ visited' = value_to_toml_value_visits(value)
    /\ UNCHANGED <<value, head, emitted, ret, ctrlc>>

\* The user interrupts the pipeline before the command runs: the flag of
\* the engine state is set.  (Once the call has returned the flag can no
\* longer bear on it.)
Interrupt ==
    /\ pc = "start"
    /\ ~ctrlc
    /\ ctrlc' = TRUE
    /\ UNCHANGED <<value, head, pc, res, emitted, ret, visited>>

\* A mutation of Run: the flag is polled before the conversion and between
\* the elements of a root list, so a call that starts interrupted converts
\* nothing.
Run_polling ==
    /\ pc = "start"
    /\ pc' = "to_toml"
    /\ res' = IF ctrlc THEN Err([e |-> "InterruptedByUser", args |-> <<>>, span |-> head])
              ELSE value_to_toml_value(into_value(into_pipeline_data(value), head))
    /\ visited' = IF ctrlc THEN <<>> ELSE value_to_toml_value_visits(value)
    /\ emitted' = IF res'.tag = "Ok" THEN Ok(to_toml_select(res'.v)) ELSE NotCalled
    /\ ret' = IF ctrlc THEN res' ELSE to_toml(into_pipeline_data(value), head)
    /\ UNCHANGED <<value, head, ctrlc>>

\* ToToml::run: to_toml(input, call.head); _engine_state is not used
Run ==
    /\ pc = "start"
    /\ pc' = "to_toml"
    /\ res' = value_to_toml_value(into_value(into_pipeline_data(value), head))
    /\ visited' = value_to_toml_value_visits(value)
    /\ emitted' = IF res'.tag = "Ok" THEN Ok(to_toml_select(res'.v)) ELSE NotCalled
    /\ ret' = to_toml(into_pipeline_data(value), head)
    /\ UNCHANGED <<value, head, ctrlc>>

Next == CallValueToTomlValue \/ Run \/ Interrupt

Spec == Init /\ [][Next]_vars

TypeOK ==
    /\ pc \in {"start", "value_to_toml_value", "to_toml"}
    /\ res.tag \in {"NotCalled", "Ok", "Err", "Panic"}
    /\ ret.tag \in {"NotCalled", "Ok", "Err", "Panic"}
    /\ ctrlc \in BOOLEAN

(***************************************************************************)
(* Vocabulary of the properties.                                           *)
(***************************************************************************)
RECURSIVE ErrorsOf(_)
RECURSIVE ErrorsOfSeq(_, _)

\* the errors wrapped by the Value::Error values of a tree, in depth-first
\* document order
ErrorsOf(v) ==
    CASE v.kind = "Error" -> <<v.error>>
      [] v.kind = "Record" -> ErrorsOfSeq(v.vals, 1)
      [] v.kind = "List" -> ErrorsOfSeq(v.vals, 1)
      [] OTHER -> <<>>

ErrorsOfSeq(vs, i) ==
    IF i > Len(vs) THEN <<>> ELSE ErrorsOf(vs[i]) \o ErrorsOfSeq(vs, i + 1)

ContainsError(v) == ErrorsOf(v) # <<>>

IsRecord(v) == v.kind = "Record"

\* a root the claims call "a Record or a list of Records"
AllRecords(vals) == \A i \in 1..Len(vals) : IsRecord(vals[i])

\* a root that reaches helper
ReachesHelper(v) ==
    \/ IsRecord(v)
    \/ v.kind = "List" /\ Len(v.vals) >= 1 /\ IsRecord(v.vals[1])

Called == pc # "start"

ShapeMessage == "Expected a table with TOML-compatible structure from pipeline"

UniqueKeys(cols) == \A i, j \in 1..Len(cols) : cols[i] = cols[j] => i = j

(***************************************************************************)
(* C1.  An Error value anywhere in the tree makes the conversion fail with *)
(* the wrapped error, unmodified.                                          *)
(***************************************************************************)
\* C1 as stated: for every tree that contains an Error value at any
\* position, the root included, the call fails with a wrapped error.
C1_AnyPositionPropagates ==
    (Called /\ ContainsError(value)) =>
        /\ res.tag = "Err"
        /\ \E i \in 1..Len(ErrorsOf(value)) : res.e = ErrorsOf(value)[i]

\* C1 amended: for every root that reaches helper (a Record, or a List whose
\* first element is a Record) and contains an Error value at any nested
\* position, value_to_toml_value and to_toml fail with exactly the error
\* wrapped by the first Error value in document order.
C1_NestedErrorPropagates ==
    (Called /\ ReachesHelper(value) /\ ContainsError(value)) =>
        /\ res = Err(ErrorsOf(value)[1])
        /\ pc = "to_toml" => ret = Err(ErrorsOf(value)[1])

\* an Error two containers below a root list of records was propagated
C1_Witness ==
    /\ pc = "to_toml"
    /\ value.kind = "List"
    /\ Len(value.vals) >= 1
    /\ AllRecords(value.vals)
    /\ ContainsError(value)
    /\ \A i \in 1..Len(value.vals) : \A j \in 1..Len(value.vals[i].vals) :
           value.vals[i].vals[j].kind # "Error"
    /\ ret = Err(Error1)

(***************************************************************************)
(* C2.  The gate on a root List.                                           *)
(***************************************************************************)
\* C2 as stated: a root List proceeds to conversion if and only if every
\* element is a Record; with a non-record at any index it fails with the
\* shape error and is never converted.
C2_GateChecksEveryElement ==
    (Called /\ value.kind = "List") =>
        /\ (visited # <<>>) <=> AllRecords(value.vals)
        /\ ~AllRecords(value.vals) =>
               res = Err(UnsupportedInput(ShapeMessage, value.span))

\* C2 amended: a root List proceeds to conversion if and only if it is not
\* empty and its first element is a Record; the other elements are not
\* inspected.  Otherwise it fails with the shape error, unconverted.
C2_GateChecksFirstElement ==
    (Called /\ value.kind = "List") =>
        /\ (visited # <<>>) <=> (Len(value.vals) >= 1 /\ IsRecord(value.vals[1]))
        /\ visited # <<>> => visited[1] = value
        /\ visited = <<>> => res = Err(UnsupportedInput(ShapeMessage, value.span))

\* a root list with a Record first and a non-record second was converted
C2_Witness ==
    /\ pc = "value_to_toml_value"
    /\ value.kind = "List"
    /\ Len(value.vals) = 2
    /\ IsRecord(value.vals[1])
    /\ value.vals[2].kind = "Int"
    /\ res.tag = "Ok"
    /\ res.v.t = "Array"
    /\ Len(res.v.items) = 2

(***************************************************************************)
(* C3.  A root String that is not a TOML document.                         *)
(***************************************************************************)
\* The root texts that are not TOML documents: the text of the test at
\* toml.rs:241, a key without a value, a quotation mark and a backslash in a
\* bare key, a key defined twice, a float literal no f64 holds.
C3_NotDocuments ==
    { "not_valid", Text_quote, Text_backslash, Text_newline, Text_duplicate_key,
      Text_float_overflow }

\* C3: when the root String is a text that is not a TOML document,
\* value_to_toml_value returns an Err (not a panic) that is not the shape
\* error and carries the span of the string.
C3_BadStringReturnsErr ==
    (Called /\ value.kind = "String" /\ value.val_str \in C3_NotDocuments) =>
        /\ res.tag = "Err"
        /\ res.e.span = value.span
        /\ res.e.args # <<ShapeMessage>>
        /\ res.e.args # <<"String is not a valid top-level TOML">>

(***************************************************************************)
(* C4.  to_toml returns the serialized document as a String value.         *)
(***************************************************************************)
\* C4: for every root that passes the gate and contains no Error value,
\* to_toml returns Ok with a String value.
C4_ReturnsString ==
    (pc = "to_toml" /\ ReachesHelper(value) /\ ~ContainsError(value)) =>
        /\ ret.tag = "Ok"
        /\ ret.v.v.kind = "String"

(***************************************************************************)
(* C5.  Single-table unwrap rule.                                          *)
(***************************************************************************)
\* C5: a List of exactly one Record converts to the InlineTable of that
\* Record, not to a one-element Array holding it.
C5_SingleTableUnwrapped ==
    (pc = "to_toml" /\ value.kind = "List" /\ Len(value.vals) = 1
        /\ IsRecord(value.vals[1]) /\ res.tag = "Ok") =>
        /\ emitted.v.t \in {"InlineTable", "Table"}
        /\ emitted.v = helper(value.vals[1]).v

(***************************************************************************)
(* C6.  Single-table unwrap law at the command level.                      *)
(***************************************************************************)
\* C6: for every Record R that converts, to_toml([R]) and to_toml(R) return
\* the same output string.
C6_UnwrapLaw ==
    (pc = "to_toml" /\ IsRecord(value) /\ res.tag = "Ok") =>
        /\ ret.tag = "Ok"
        /\ ret.v.v.kind = "String"
        /\ to_toml(into_pipeline_data(Value_List(<<value>>, value.span)), head) = ret

(***************************************************************************)
(* C7.  Lists that stay arrays.                                            *)
(***************************************************************************)
\* the lists C7 is about: empty, two or more elements, or one non-record
C7_Case(l) == l.kind = "List" /\ (Len(l.vals) # 1 \/ ~IsRecord(l.vals[1]))

\* l converts to an Array of its elements' conversions, in order
C7_IsArrayOf(r, l) ==
    /\ r.tag = "Ok"
    /\ r.v.t = "Array"
    /\ Len(r.v.items) = Len(l.vals)
    /\ \A j \in 1..Len(l.vals) : r.v.items[j] = helper(l.vals[j]).v

\* C7: every list the converter is invoked on that is empty, has two or
\* more elements, or has a single non-record element (and holds no Error
\* value) converts to an Array of the same length whose i-th element is the
\* conversion of the i-th element; a root list of two or more Records comes
\* out of value_to_toml_value, and is handed on by to_toml, as that Array.
C7_ListsStayArrays ==
    /\ \A i \in 1..Len(visited) :
           (C7_Case(visited[i]) /\ ~ContainsError(visited[i])) =>
               C7_IsArrayOf(helper(visited[i]), visited[i])
    /\ (Called /\ value.kind = "List" /\ Len(value.vals) >= 2
            /\ AllRecords(value.vals) /\ ~ContainsError(value)) =>
           /\ C7_IsArrayOf(res, value)
           /\ pc = "to_toml" => emitted = res

\* a root list of two Records came out as a two-element Array of tables
C7_Witness ==
    /\ pc = "to_toml"
    /\ value.kind = "List"
    /\ Len(value.vals) = 2
    /\ AllRecords(value.vals)
    /\ res.tag = "Ok"
    /\ res.v.t = "Array"
    /\ Len(res.v.items) = 2
    /\ res.v.items[1].t = "InlineTable"
    /\ res.v.items[2].t = "InlineTable"
    /\ emitted = res

(***************************************************************************)
(* C8.  Records become inline tables, key for key.                         *)
(***************************************************************************)
C8_IsTableOf(r, rec) ==
    /\ r.tag = "Ok"
    /\ r.v.t = "InlineTable"
    /\ r.v.keys = rec.cols
    /\ Len(r.v.vals) = Len(rec.vals)
    /\ \A j \in 1..Len(rec.vals) : r.v.vals[j] = helper(rec.vals[j]).v

\* C8: every Record the converter is invoked on that has unique keys and
\* holds no Error value converts to an InlineTable whose keys are the
\* record's columns in the same order and whose value at each key is the
\* conversion of the record's value at that position.
C8_RecordKeysPreserved ==
    /\ \A i \in 1..Len(visited) :
           (IsRecord(visited[i]) /\ UniqueKeys(visited[i].cols)
                /\ ~ContainsError(visited[i])) =>
               C8_IsTableOf(helper(visited[i]), visited[i])
    /\ (Called /\ IsRecord(value) /\ UniqueKeys(value.cols)
            /\ ~ContainsError(value)) => C8_IsTableOf(res, value)

\* a root record with the columns b, a (in that order) was converted
C8_Witness ==
    /\ pc = "value_to_toml_value"
    /\ IsRecord(value)
    /\ value.cols = <<"b", "a">>
    /\ res.tag = "Ok"
    /\ res.v.keys = <<"b", "a">>
    /\ res.v.vals[1] = Toml_String("editor")
    /\ res.v.vals[2] = Toml_String("<Nothing>")

(***************************************************************************)
(* C9.  Roots that are rejected before any conversion.                     *)
(***************************************************************************)
\* C9 as stated: every root that is neither a Record, nor a List of Records,
\* nor a String fails with UnsupportedInput before helper is invoked, with a
\* message naming the value's type and with the value's span.
C9_ShapeErrorNamesType ==
    (Called /\ ~IsRecord(value) /\ value.kind # "String"
        /\ ~(value.kind = "List" /\ AllRecords(value.vals))) =>
        /\ visited = <<>>
        /\ res.tag = "Err"
        /\ res.e.e = "UnsupportedInput"
        /\ res.e.args = <<type_debug(get_type(value)) \o " is not a valid top-level TOML">>
        /\ value.kind # "Error" => res.e.span = value.span

\* C9 amended: every root that is neither a Record, a List nor a String
\* fails with UnsupportedInput before helper is invoked, with a message
\* naming the value's type and with the value's span (the unknown span for
\* an Error root, which has none); a root List that is empty or whose
\* first element is not a Record fails with UnsupportedInput before helper
\* is invoked, with the fixed message "Expected a table with
\* TOML-compatible structure from pipeline" and the list's span.
C9_ShapeErrorBeforeHelper ==
    /\ (Called /\ value.kind \notin {"Record", "List", "String"}) =>
           /\ visited = <<>>
           /\ res = Err(UnsupportedInput(
                  type_debug(get_type(value)) \o " is not a valid top-level TOML",
                  IF value.kind = "Error" THEN 0 ELSE value.span))
           /\ pc = "to_toml" => ret = res
    /\ (Called /\ value.kind = "List"
            /\ (Len(value.vals) = 0 \/ ~IsRecord(value.vals[1]))) =>
           /\ visited = <<>>
           /\ res = Err(UnsupportedInput(ShapeMessage, value.span))
           /\ pc = "to_toml" => ret = res

\* a bare Filesize root with a known span was rejected
C9_Witness ==
    /\ pc = "value_to_toml_value"
    /\ value.kind = "Filesize"
    /\ value.span = 1
    /\ visited = <<>>
    /\ res = Err(UnsupportedInput("Filesize is not a valid top-level TOML", 1))

(***************************************************************************)
(* C10.  A root String that is a TOML document.                            *)
(***************************************************************************)
\* The Record with the keys and values of a root text that is a TOML
\* document.
C10_Record(text) ==
    CASE text = TomlText_empty -> Value_Record(<<>>, <<>>, 0)
      [] text = TomlText_title -> Value_Record(<<"title">>, <<Value_String("x", 0)>>, 0)
      [] text = TomlText_integer -> Value_Record(<<"a">>, <<Value_Int(1, 0)>>, 0)
      [] text = TomlText_inline_table ->
             Value_Record(<<"a">>, <<Value_Record(<<"b">>, <<Value_Int(1, 0)>>, 0)>>, 0)

\* C10: when the root String is a valid TOML document, value_to_toml_value
\* succeeds with the parsed document: a table-shaped value holding the keys
\* and values of the text, as the conversion of the Record with these keys
\* and values does, not the text as a String.  For the text of the test at
\* toml.rs:219-232 the keys are title, owner and dependencies, and title maps
\* to the String "TOML Example".
C10_ValidStringYieldsDocument ==
    (Called /\ value.kind = "String"
            /\ value.val_str \in {TomlText_empty, TomlText_title, TomlText_integer,
                                  TomlText_inline_table, TomlText_test}) =>
        /\ res.tag = "Ok"
        /\ res.v.t \in {"Table", "InlineTable"}
        /\ IF value.val_str = TomlText_test
           THEN /\ res.v.keys = <<"title", "owner", "dependencies">>
                /\ res.v.vals[1] = Toml_String("TOML Example")
           ELSE /\ res.v.keys = helper(C10_Record(value.val_str)).v.keys
                /\ res.v.vals = helper(C10_Record(value.val_str)).v.vals

(***************************************************************************)
(* C11.  Range, Block, Nothing and CustomValue degrade to placeholders.    *)
(***************************************************************************)
C11_Placeholder(kind) ==
    CASE kind = "Range" -> "<Range>"
      [] kind = "Block" -> "<Block>"
      [] kind = "Nothing" -> "<Nothing>"
      [] kind = "CustomValue" -> "<Custom Value>"

C11_Kinds == {"Range", "Block", "Nothing", "CustomValue"}

\* C11: every Range, Block, Nothing or CustomValue the converter is invoked
\* on converts to its fixed String, and every root that reaches the
\* converter and holds no Error value converts successfully, whatever of
\* these four kinds it holds.
C11_PlaceholdersNeverFail ==
    /\ \A i \in 1..Len(visited) :
           visited[i].kind \in C11_Kinds =>
               helper(visited[i]) = Ok(Toml_String(C11_Placeholder(visited[i].kind)))
    /\ (Called /\ ReachesHelper(value) /\ ~ContainsError(value)) =>
           /\ res.tag = "Ok"
           /\ \A i \in 1..Len(value.vals) :
                  (IsRecord(value) /\ UniqueKeys(value.cols)
                       /\ value.vals[i].kind \in C11_Kinds) =>
                      res.v.vals[i] = Toml_String(C11_Placeholder(value.vals[i].kind))

\* a record holding a list with a Block, and the Block itself, converted
C11_Witness ==
    /\ pc = "value_to_toml_value"
    /\ IsRecord(value)
    /\ value.cols = <<"a", "b">>
    /\ value.vals[2].kind = "Block"
    /\ res.tag = "Ok"
    /\ res.v.vals[1] = Toml_Array(<<Toml_String("<Block>")>>)
    /\ res.v.vals[2] = Toml_String("<Block>")

(***************************************************************************)
(* C12.  Fail-fast in document order.                                      *)
(***************************************************************************)
RECURSIVE Preorder(_)
RECURSIVE PreorderSeq(_, _)

\* the values of a tree in depth-first document order
Preorder(v) ==
    <<v>> \o (IF v.kind \in {"Record", "List"} THEN PreorderSeq(v.vals, 1) ELSE <<>>)

PreorderSeq(vs, i) ==
    IF i > Len(vs) THEN <<>> ELSE Preorder(vs[i]) \o PreorderSeq(vs, i + 1)

IsPrefix(p, q) == Len(p) <= Len(q) /\ \A i \in 1..Len(p) : p[i] = q[i]

\* C12: for a root that reaches the converter, the values are converted in
\* depth-first document order; without an Error value the whole tree is
\* converted; with Error values the walk ends at the first of them in
\* document order, the error returned is the one it wraps, nothing after it
\* is converted and the result holds no partial table or array.
C12_FailFastInDocumentOrder ==
    (Called /\ ReachesHelper(value)) =>
        /\ IsPrefix(visited, Preorder(value))
        /\ ~ContainsError(value) => (visited = Preorder(value) /\ res.tag = "Ok")
        /\ ContainsError(value) =>
               /\ res = Err(ErrorsOf(value)[1])
               /\ DOMAIN res = {"tag", "e"}
               /\ visited[Len(visited)] = Value_Error(ErrorsOf(value)[1])
               /\ \A i \in 1..(Len(visited) - 1) : visited[i].kind # "Error"

\* a tree with two different Error values after its first element failed
\* with the first of them, and its last element was never converted
C12_Witness ==
    /\ pc = "value_to_toml_value"
    /\ value.kind = "List"
    /\ Len(ErrorsOf(value)) = 2
    /\ ErrorsOf(value)[1] # ErrorsOf(value)[2]
    /\ res = Err(ErrorsOf(value)[1])
    /\ Len(visited) = 3
    /\ Len(Preorder(value)) = 4

(***************************************************************************)
(* C13.  Root-shape invariant.                                             *)
(***************************************************************************)
TableShaped(tv) == tv.t \in {"Table", "InlineTable"}

\* C13: whenever the conversion of a root succeeds, the root of the
\* document tree the command goes on with is table-shaped: a table, or a
\* one-element array of tables reduced to its table.
C13_RootIsTableShaped ==
    (pc = "to_toml" /\ res.tag = "Ok") => TableShaped(emitted.v)

(***************************************************************************)
(* C14.  Binary values become arrays of byte values.                       *)
(***************************************************************************)
\* C14: every Binary value the converter is invoked on converts to an Array
\* with one Integer per byte, in byte order, each equal to the byte's
\* unsigned value and so within 0..255.
C14_BinaryIsArrayOfBytes ==
    \A i \in 1..Len(visited) :
        visited[i].kind = "Binary" =>
            LET r == helper(visited[i])
                bytes == visited[i].val_bytes
            IN  /\ r.tag = "Ok"
                /\ r.v.t = "Array"
                /\ Len(r.v.items) = Len(bytes)
                /\ \A j \in 1..Len(bytes) :
                       /\ r.v.items[j] = Toml_Integer(bytes[j])
                       /\ r.v.items[j].i >= 0
                       /\ r.v.items[j].i <= 255

\* a record field holding the bytes 0, 127, 128 came out as [0, 127, 128]
C14_Witness ==
    /\ pc = "value_to_toml_value"
    /\ IsRecord(value)
    /\ value.cols = <<"a">>
    /\ value.vals[1] = Value_Binary(<<0, 127, 128>>, 0)
    /\ res = Ok(Toml_InlineTable(<<"a">>,
                 <<Toml_Array(<<Toml_Integer(0), Toml_Integer(127), Toml_Integer(128)>>)>>))

(***************************************************************************)
(* C15.  Round trip through the output text.                               *)
(***************************************************************************)
\* C15: for every root that converts, the command returns the document as
\* text, and converting that text again (a root String is parsed as a
\* document) yields a tree equal to the one of the first conversion.
C15_RoundTrip ==
    (pc = "to_toml" /\ res.tag = "Ok") =>
        /\ ret.tag = "Ok"
        /\ ret.v.v.kind = "String"
        /\ value_to_toml_value(ret.v.v).tag = "Ok"
        /\ value_to_toml_value(ret.v.v).v = emitted.v

(***************************************************************************)
(* C16.  The shape restriction is on the root only.                        *)
(***************************************************************************)
\* tv.get(key) on a table: the value at the key
TomlGet(tv, key) == tv.vals[CHOOSE i \in 1..Len(tv.keys) : tv.keys[i] = key]

\* C16: a root Record (unique keys, no Error value) converts whatever its
\* fields hold: a field that is a List, of records or not, comes out as the
\* Array of its converted elements in order, and a Nothing field comes out
\* as "<Nothing>".
C16_NestedListsUnrestricted ==
    (Called /\ IsRecord(value) /\ UniqueKeys(value.cols) /\ ~ContainsError(value)) =>
        /\ res.tag = "Ok"
        /\ \A i \in 1..Len(value.vals) :
               /\ value.vals[i].kind = "List" =>
                      TomlGet(res.v, value.cols[i]) =
                          Toml_Array([j \in 1..Len(value.vals[i].vals) |->
                                         helper(value.vals[i].vals[j]).v])
               /\ value.vals[i].kind = "Nothing" =>
                      TomlGet(res.v, value.cols[i]) = Toml_String("<Nothing>")

\* the record of the unit test: features is the array of its two strings
C16_Witness ==
    /\ pc = "value_to_toml_value"
    /\ IsRecord(value)
    /\ value.cols = <<"rust", "is", "features">>
    /\ res.tag = "Ok"
    /\ TomlGet(res.v, "features") =
           Toml_Array(<<Toml_String("hello"), Toml_String("array")>>)
    /\ TomlGet(res.v, "is") = Toml_String("<Nothing>")
    /\ TomlGet(res.v, "rust") = Toml_String("editor")

(***************************************************************************)
(* C17.  Cancellation.                                                     *)
(***************************************************************************)
\* a root list of two or more elements that reaches the converter and
\* holds no Error value, converted by the command after an interrupt
C17_Case ==
    /\ pc = "to_toml"
    /\ ctrlc
    /\ value.kind = "List"
    /\ Len(value.vals) >= 2
    /\ ReachesHelper(value)
    /\ ~ContainsError(value)

\* C17 as stated: once the cancellation signal is set, the conversion of a
\* root list stops before the next top-level element and returns no output.
C17_AbortsOnCancellation ==
    C17_Case =>
        /\ res.tag # "Ok"
        /\ Len(visited) < Len(Preorder(value))

\* C17 amended: the command polls no cancellation signal; a root list that
\* reaches the converter and holds no Error value is converted to the end,
\* every top-level element in order, also when the interrupt flag was set
\* before the call.
C17_NoCancellationPoll ==
    C17_Case =>
        /\ res.tag = "Ok"
        /\ Len(res.v.items) = Len(value.vals)
        /\ visited = Preorder(value)
        /\ ret.tag = "Ok"

\* an interrupted call converted both records of a root list
C17_Witness ==
    /\ C17_Case
    /\ AllRecords(value.vals)
    /\ Len(value.vals) = 2
    /\ res.tag = "Ok"
    /\ Len(res.v.items) = 2
    /\ Len(visited) >= 3

(***************************************************************************)
(* C18.  An empty root List is rejected.                                   *)
(***************************************************************************)
\* C18: value_to_toml_value on a root List of zero elements returns
\* UnsupportedInput("Expected a table with TOML-compatible structure from
\* pipeline") with the list's span, and helper is not invoked.
C18_EmptyListRejected ==
    (Called /\ value.kind = "List" /\ Len(value.vals) = 0) =>
        /\ res.tag = "Err"
        /\ res.e.e = "UnsupportedInput"
        /\ res.e.args = <<ShapeMessage>>
        /\ res.e.span = value.span
        /\ visited = <<>>

\* the empty list with span 1 was rejected with that span
C18_Witness ==
    /\ pc = "value_to_toml_value"
    /\ value = Value_List(<<>>, 1)
    /\ res = Err(UnsupportedInput(ShapeMessage, 1))
    /\ visited = <<>>

====
